---- MODULE Spec2Model ----
(***************************************************************************)
(* manga-tui: the render loop (backend/tui.rs run_app), the App controller *)
(* (view/app.rs App::handle_events, App::update) and the two channels that *)
(* feed them.  One loop iteration is five steps (loop test and draw, one   *)
(* event, one global action, the search page's local action, the manga     *)
(* page's local action); the senders run concurrently with the loop and    *)
(* may put something on a channel between any two steps.                   *)
(***************************************************************************)
EXTENDS Integers, Sequences, FiniteSets, TLC

VARIABLES
    state,              \* App.state: "Runnning" | "Done"
    current_tab,        \* App.current_tab: "Search" | "MangaTab" | "ReaderTab"
    manga_page,         \* App.manga_page: <<>> (None) or <<page>> (Some)
    manga_reader_page,  \* App.manga_reader_page: <<>> (None) or <<reader>> (Some)
    search_page,        \* App.search_page (always resident)
    global_event_rx,    \* the global event channel, oldest first
    global_action_rx,   \* the global action channel, oldest first
    pc,                 \* position of run_app in its loop
    next_id,            \* identity given to the next page constructed
    sends,              \* number of sends made so far by the senders
    ev_applied,         \* the event dequeued in the current iteration
    ev_target,          \* the page whose handle_events received it
    act_applied,        \* the global action dequeued in the current iteration
    quit_wait,          \* loop tests passed with a Quit waiting on the action channel
    input,              \* the input task: its turns, its last read, its failed reads
    DBCONN,             \* history.rs DBCONN: "Uninit" | "None" | "Some"
    mangas,             \* the rows of table mangas, in insertion order
    chapters,           \* the rows of table chapters, in insertion order
    history_call,       \* the last call made on the history store and how it ended
    fetch_call          \* the last call made on the fetch client and how it ended

appVars == <<state, current_tab, manga_page, manga_reader_page, search_page,
             global_event_rx, global_action_rx, pc, next_id, sends,
             ev_applied, ev_target, act_applied, quit_wait>>

backendVars == <<DBCONN, mangas, chapters, history_call, fetch_call>>

vars == <<appVars, input, backendVars>>

(***************************************************************************)
(* Bounds of the model.                                                    *)
(***************************************************************************)
MaxSends == 4
MaxPages == 7
MaxChapters == 1
MaxTurns == 4
MaxSaves == 3
MaxFetches == 2

(***************************************************************************)
(* Program constants.                                                      *)
(***************************************************************************)
SaverPages == 5

SelectedTabs == {"Search", "MangaTab", "ReaderTab"}
Actions == {"GoToSearchPage", "Quit", "NextTab", "PreviousTab"}
InputModes == {"Idle", "Typing"}

(***************************************************************************)
(* Events.  Every event is a record of the same shape; the fields an event *)
(* kind does not carry are left empty.  origin is the identity of the      *)
(* reader page whose fetch task produced a Redraw.                         *)
(***************************************************************************)
Ev(type) ==
    [type |-> type, code |-> "", modifiers |-> "", origin |-> 0,
     data_saver |-> <<>>, data |-> <<>>]

NoEvent == Ev("None")
Tick == Ev("Tick")
Mouse == Ev("Mouse")
Key(code, modifiers) == [Ev("Key") EXCEPT !.code = code, !.modifiers = modifiers]
Redraw(origin) == [Ev("Redraw") EXCEPT !.origin = origin]
GoToMangaPage == Ev("GoToMangaPage")
GoBackMangaPage == Ev("GoBackMangaPage")
GoSearchPage == Ev("GoSearchPage")

\* The chapter response: l data-saver file names and n full-quality file names,
\* each named by its fidelity and its position in the chapter.
ReadChapter(l, n) ==
    [Ev("ReadChapter") EXCEPT !.data_saver = [i \in 1..l |-> <<"data_saver", i>>],
                              !.data = [i \in 1..n |-> <<"data", i>>]]

Take(s, k) == SubSeq(s, 1, IF Len(s) < k THEN Len(s) ELSE k)
Skip(s, k) == SubSeq(s, k + 1, Len(s))

(***************************************************************************)
(* Pages.                                                                  *)
(***************************************************************************)
NewSearchPage == [input_mode |-> "Idle", pending |-> 0, applied |-> 0]
NewMangaPage(id) == [id |-> id, pending |-> 0, applied |-> 0]
NewMangaReader(id, saver, full) == [id |-> id, data_saver |-> saver, data |-> full]

\* The page the reader shows at position i: the data-saver pages it was given
\* come first, the full-quality pages follow them.
ReaderPages(reader) == reader.data_saver \o reader.data
ReaderResolve(reader, i) == ReaderPages(reader)[i]

\* SelectedTabs::next and SelectedTabs::previous, called with the tab alone.
SelectedTabs_next(tab) ==
    CASE tab = "Search" -> {"MangaTab"}
      [] tab = "MangaTab" -> {"Search"}
      [] OTHER -> {"Search", "MangaTab"}

SelectedTabs_previous(tab) ==
    CASE tab = "Search" -> {"MangaTab"}
      [] tab = "MangaTab" -> {"Search"}
      [] OTHER -> {"Search", "MangaTab"}

(***************************************************************************)
(* App::handle_events, one operator per field it writes.                   *)
(***************************************************************************)
HandleEventsTab(e, tab) ==
    CASE e.type = "GoToMangaPage" -> "MangaTab"
      [] e.type = "ReadChapter" -> "ReaderTab"
      [] e.type = "GoBackMangaPage" -> "MangaTab"
      [] e.type = "GoSearchPage" -> "Search"
      [] OTHER -> tab

HandleEventsMangaPage_KeepsOld(e, page, id) ==
    IF e.type = "GoToMangaPage" /\ page = <<>> THEN <<NewMangaPage(id)>> ELSE page

HandleEventsMangaPage(e, page, id) ==
    IF e.type = "GoToMangaPage" THEN <<NewMangaPage(id)>> ELSE page

ChapterSaverPages_OneShort(e) == Take(e.data_saver, SaverPages - 1)
ChapterSaverPages(e) == Take(e.data_saver, SaverPages)
ChapterFullPages(e) == Skip(e.data, SaverPages)

HandleEventsReader(e, reader, id) ==
    IF e.type = "ReadChapter"
    THEN <<NewMangaReader(id, ChapterSaverPages(e), ChapterFullPages(e))>>
    ELSE reader

HandleEventsQuit_NoModeGate(e, input_mode) ==
    /\ e.type = "Key"
    /\ e.code = "c"
    /\ e.modifiers = "CONTROL"

HandleEventsQuit(e, input_mode) ==
    /\ e.type = "Key"
    /\ input_mode # "Typing"
    /\ e.code = "c"
    /\ e.modifiers = "CONTROL"

HandleEventsActions(e, input_mode, queue) ==
    IF HandleEventsQuit(e, input_mode) THEN Append(queue, "Quit") ELSE queue

Constructs(e) == e.type \in {"GoToMangaPage", "ReadChapter"}

(***************************************************************************)
(* App::update, one operator per field it writes.                          *)
(***************************************************************************)
UpdateState_QuitIgnored(a, st) == st
UpdateState(a, st) == IF a = "Quit" THEN "Done" ELSE st

UpdateTabs(a, tab) ==
    CASE a = "PreviousTab" -> SelectedTabs_previous(tab)
      [] a = "NextTab" -> SelectedTabs_next(tab)
      [] a = "GoToSearchPage" -> {"Search"}
      [] OTHER -> {tab}

UpdateMangaPage_TabSwitchDrops(a, page) ==
    IF a \in {"GoToSearchPage", "NextTab", "PreviousTab"} THEN <<>> ELSE page
UpdateMangaPage(a, page) == IF a = "GoToSearchPage" THEN <<>> ELSE page
UpdateReader(a, reader) == IF a = "GoToSearchPage" THEN <<>> ELSE reader

\* The input task before its first turn; a backend on which nothing was called.
NewInput == [turns |-> 0, last |-> "None", failed |-> 0]
NoArg == [id |-> "", title |-> "", chapter_id |-> "", chapter_title |-> ""]
NoHistoryCall ==
    [fn |-> "None", arg |-> NoArg, result |-> "None", calls |-> 0,
     mangas_before |-> <<>>, chapters_before |-> <<>>]
NoFetchCall == [fn |-> "None", response |-> "None", result |-> "None", calls |-> 0]

(***************************************************************************)
(* The initial state: App::new.                                            *)
(***************************************************************************)
Init ==
    /\ state = "Runnning"
    /\ current_tab = "Search"
    /\ manga_page = <<>>
    /\ manga_reader_page = <<>>
    /\ search_page = NewSearchPage
    /\ global_event_rx = <<>>
    /\ global_action_rx = <<>>
    /\ pc = "check"
    /\ next_id = 1
    /\ sends = 0
    /\ ev_applied = NoEvent
    /\ ev_target = "None"
    /\ act_applied = "None"
    /\ quit_wait = 0
    /\ input = NewInput
    /\ DBCONN = "Uninit"
    /\ mangas = <<>>
    /\ chapters = <<>>
    /\ history_call = NoHistoryCall
    /\ fetch_call = NoFetchCall

(***************************************************************************)
(* The pages' own handlers.  A key may change the search page's input      *)
(* mode; a local action applied by update is counted in the page.          *)
(***************************************************************************)
SearchPageHandleEvents(e, page) ==
    IF e.type = "Key"
    THEN {[page EXCEPT !.input_mode = m] : m \in InputModes}
    ELSE {page}

MangaPageHandleEvents(e, page) == page

PageUpdate(page) ==
    [page EXCEPT !.pending = @ - 1, !.applied = @ + 1]

(***************************************************************************)
(* run_app: the match on current_tab that follows App::handle_events.      *)
(* "Panic" is the unwrap of an absent manga page; "None" is a tab for      *)
(* which the match delivers the event to no page.                          *)
(***************************************************************************)
DispatchTarget(tab, page) ==
    CASE tab = "Search" -> "Search"
      [] tab = "MangaTab" -> IF page = <<>> THEN "Panic" ELSE "MangaTab"
      [] OTHER -> "None"

Running == pc \notin {"done", "panicked"}

\* while app.state == AppState::Runnning
LoopContinues_Always(st) == TRUE
LoopContinues(st) == st = "Runnning"

\* while app.state == AppState::Runnning { terminal.draw(..) ...
LoopCheck ==
    /\ pc = "check"
    /\ IF LoopContinues(state)
       THEN /\ pc' = "event"
            /\ ev_applied' = NoEvent
            /\ ev_target' = "None"
            /\ act_applied' = "None"
            /\ quit_wait' = IF \E i \in 1..Len(global_action_rx) : global_action_rx[i] = "Quit"
                            THEN (IF quit_wait < 2 THEN quit_wait + 1 ELSE 2)
                            ELSE quit_wait
       ELSE /\ pc' = "done"
            /\ UNCHANGED <<ev_applied, ev_target, act_applied, quit_wait>>
    /\ UNCHANGED <<state, current_tab, manga_page, manga_reader_page, search_page,
                   global_event_rx, global_action_rx, next_id, sends>>
    /\ UNCHANGED <<input, backendVars>>

\* if let Ok(event) = app.global_event_rx.try_recv() { ... }
EventStep ==
    /\ pc = "event"
    /\ IF global_event_rx = <<>>
       THEN /\ pc' = "action"
            /\ UNCHANGED <<current_tab, manga_page, manga_reader_page, search_page,
                           global_event_rx, global_action_rx, next_id,
                           ev_applied, ev_target>>
       ELSE LET e == Head(global_event_rx)
                tab == HandleEventsTab(e, current_tab)
                page == HandleEventsMangaPage(e, manga_page, next_id)
                target == DispatchTarget(tab, page)
            IN  /\ global_event_rx' = Tail(global_event_rx)
                /\ current_tab' = tab
                /\ manga_reader_page' = HandleEventsReader(e, manga_reader_page, next_id)
                /\ global_action_rx' =
                       HandleEventsActions(e, search_page.input_mode, global_action_rx)
                /\ next_id' = IF Constructs(e) THEN next_id + 1 ELSE next_id
                /\ ev_applied' = e
                /\ ev_target' = target
                /\ search_page' \in IF target = "Search"
                                    THEN SearchPageHandleEvents(e, search_page)
                                    ELSE {search_page}
                /\ manga_page' = IF target = "MangaTab"
                                 THEN <<MangaPageHandleEvents(e, page[1])>>
                                 ELSE page
                /\ pc' = IF target = "Panic" THEN "panicked" ELSE "action"
    /\ UNCHANGED <<state, sends, act_applied, quit_wait>>
    /\ UNCHANGED <<input, backendVars>>

\* if let Ok(app_action) = app.global_action_rx.try_recv() { app.update(app_action); }
ActionStep ==
    /\ pc = "action"
    /\ pc' = "search_local"
    /\ IF global_action_rx = <<>>
       THEN UNCHANGED <<state, current_tab, manga_page, manga_reader_page,
                        global_action_rx, act_applied>>
       ELSE LET a == Head(global_action_rx)
            IN  /\ global_action_rx' = Tail(global_action_rx)
                /\ state' = UpdateState(a, state)
                /\ current_tab' \in UpdateTabs(a, current_tab)
                /\ manga_page' = UpdateMangaPage(a, manga_page)
                /\ manga_reader_page' = UpdateReader(a, manga_reader_page)
                /\ act_applied' = a
    /\ UNCHANGED <<search_page, global_event_rx, next_id, sends,
                   ev_applied, ev_target, quit_wait>>
    /\ UNCHANGED <<input, backendVars>>

\* The search page's local action channel is read whichever tab is active.
SearchLocalDrains(tab, page) == page.pending > 0

\* if let Ok(a) = app.search_page.local_action_rx.try_recv() { app.search_page.update(a); }
SearchLocalStep ==
    /\ pc = "search_local"
    /\ pc' = "manga_local"
    /\ search_page' = IF SearchLocalDrains(current_tab, search_page)
                      THEN PageUpdate(search_page)
                      ELSE search_page
    /\ UNCHANGED <<state, current_tab, manga_page, manga_reader_page,
                   global_event_rx, global_action_rx, next_id, sends,
                   ev_applied, ev_target, act_applied, quit_wait>>
    /\ UNCHANGED <<input, backendVars>>

MangaLocalDrains(tab, page) ==
    /\ tab = "MangaTab"
    /\ page # <<>>
    /\ page[1].pending > 0

\* if app.current_tab == SelectedTabs::MangaTab { if let Some(manga_page) = ... }
MangaLocalStep ==
    /\ pc = "manga_local"
    /\ pc' = "check"
    /\ manga_page' = IF MangaLocalDrains(current_tab, manga_page)
                     THEN <<PageUpdate(manga_page[1])>>
                     ELSE manga_page
    /\ UNCHANGED <<state, current_tab, manga_reader_page, search_page,
                   global_event_rx, global_action_rx, next_id, sends,
                   ev_applied, ev_target, act_applied, quit_wait>>
    /\ UNCHANGED <<input, backendVars>>

Loop == LoopCheck \/ EventStep \/ ActionStep \/ SearchLocalStep \/ MangaLocalStep

(***************************************************************************)
(* The senders: the input task, the pages and their fetch tasks, each      *)
(* holding a clone of a channel's sending half.                            *)
(***************************************************************************)
SendEvent(e) ==
    /\ Running
    /\ sends < MaxSends
    /\ sends' = sends + 1
    /\ global_event_rx' = Append(global_event_rx, e)
    /\ UNCHANGED <<state, current_tab, manga_page, manga_reader_page, search_page,
                   global_action_rx, pc, next_id,
                   ev_applied, ev_target, act_applied, quit_wait>>
    /\ UNCHANGED <<input, backendVars>>

InputEvents == {Tick, Key("c", "CONTROL")}

\* handle_events(tick_rate, event_tx): the input task
InputSource == \E e \in InputEvents : SendEvent(e)

Chapters == {<<SaverPages, MaxPages>>}
AllChapters == (0..MaxPages) \X (0..MaxPages)

\* A page asks the controller to navigate.
PageNavigates ==
    \E e \in {GoToMangaPage, GoBackMangaPage, GoSearchPage}
             \cup {ReadChapter(c[1], c[2]) : c \in Chapters} : SendEvent(e)

\* A fetch task of the resident reader delivers its result.
ReaderFetchResult ==
    /\ manga_reader_page # <<>>
    /\ SendEvent(Redraw(manga_reader_page[1].id))

\* global_action_tx.send(action)
SendAction ==
    /\ Running
    /\ sends < MaxSends
    /\ sends' = sends + 1
    /\ \E a \in Actions : global_action_rx' = Append(global_action_rx, a)
    /\ UNCHANGED <<state, current_tab, manga_page, manga_reader_page, search_page,
                   global_event_rx, pc, next_id,
                   ev_applied, ev_target, act_applied, quit_wait>>
    /\ UNCHANGED <<input, backendVars>>

\* The search page puts a local action on its own channel.
SearchPageSendsLocal ==
    /\ Running
    /\ sends < MaxSends
    /\ sends' = sends + 1
    /\ search_page' = [search_page EXCEPT !.pending = @ + 1]
    /\ UNCHANGED <<state, current_tab, manga_page, manga_reader_page,
                   global_event_rx, global_action_rx, pc, next_id,
                   ev_applied, ev_target, act_applied, quit_wait>>
    /\ UNCHANGED <<input, backendVars>>

\* The manga page puts a local action on its own channel.
MangaPageSendsLocal ==
    /\ Running
    /\ sends < MaxSends
    /\ manga_page # <<>>
    /\ sends' = sends + 1
    /\ manga_page' = <<[manga_page[1] EXCEPT !.pending = @ + 1]>>
    /\ UNCHANGED <<state, current_tab, manga_reader_page, search_page,
                   global_event_rx, global_action_rx, pc, next_id,
                   ev_applied, ev_target, act_applied, quit_wait>>
    /\ UNCHANGED <<input, backendVars>>

Next ==
    \/ Loop
    \/ InputSource
    \/ PageNavigates
    \/ ReaderFetchResult
    \/ SendAction
    \/ SearchPageSendsLocal
    \/ MangaPageSendsLocal

Spec == Init /\ [][Next]_vars

(***************************************************************************)
(* Opening chapters of every shape: the only events are ReadChapter.       *)
(***************************************************************************)
OpenChapter ==
    /\ next_id <= MaxChapters
    /\ Len(global_event_rx) = 0
    /\ \E c \in AllChapters : SendEvent(ReadChapter(c[1], c[2]))

NextChapter == Loop \/ OpenChapter

SpecChapter == Init /\ [][NextChapter]_vars

(***************************************************************************)
(* The input task in detail: handle_events(tick_rate, event_tx).  Each     *)
(* turn of its loop takes a fresh tick_interval.tick() and a fresh         *)
(* reader.next() and lets select! run the branch that is ready first.  A   *)
(* read ends with a terminal event, with an error or with the end of the   *)
(* stream.                                                                 *)
(***************************************************************************)
TermEvents == {"KeyPress", "KeyRepeat", "KeyRelease", "Mouse", "Resize"}
ReadResults == TermEvents \cup {"Err", "End"}

ForwardedEvents_AnyKeyKind(read) ==
    CASE read \in {"KeyPress", "KeyRepeat", "KeyRelease"} -> <<Key("c", "CONTROL")>>
      [] read = "Mouse" -> <<Mouse>>
      [] OTHER -> <<>>

\* What the event branch sends for a read result.
ForwardedEvents(read) ==
    CASE read = "KeyPress" -> <<Key("c", "CONTROL")>>
      [] read = "Mouse" -> <<Mouse>>
      [] OTHER -> <<>>

InputTurn(last, failed, sent) ==
    /\ Running
    /\ input.turns < MaxTurns
    /\ input' = [turns |-> input.turns + 1, last |-> last, failed |-> failed]
    /\ global_event_rx' = global_event_rx \o sent
    /\ UNCHANGED <<state, current_tab, manga_page, manga_reader_page, search_page,
                   global_action_rx, pc, next_id, sends,
                   ev_applied, ev_target, act_applied, quit_wait>>
    /\ UNCHANGED backendVars

\* maybe_event = event => { match maybe_event { ... } }
InputRead ==
    \E read \in ReadResults :
        InputTurn(read,
                  IF read \in {"Err", "End"}
                  THEN (IF input.failed < 2 THEN input.failed + 1 ELSE 2)
                  ELSE 0,
                  ForwardedEvents(read))

\* _ = delay => { event_tx.send(Events::Tick).unwrap(); }
InputTick == InputTurn("Delay", 0, <<Tick>>)

NextInput == Loop \/ InputRead \/ InputTick

SpecInput == Init /\ [][NextInput]_vars

(***************************************************************************)
(* The history store: history.rs.  DBCONN is initialised on first use; a   *)
(* table is the sequence of its rows.  id is the PRIMARY KEY of both       *)
(* tables, so an INSERT of an id the table already holds fails.  The       *)
(* manga_id a chapter row is inserted with is always an id of a row of     *)
(* mangas, so the FOREIGN KEY never decides an INSERT.                     *)
(***************************************************************************)
MangaIds == {"m1", "m2"}
ChapterIds == {"c1", "c2"}
MangaTitles == {"Title"}
ChapterTitles == {"Ch1", "Ch2"}

\* MangaReadingHistorySave
HistorySaves ==
    [id : MangaIds, title : MangaTitles,
     chapter_id : ChapterIds, chapter_title : ChapterTitles]

HasId(table, id) == \E i \in 1..Len(table) : table[i].id = id

\* INSERT INTO mangas / INSERT INTO chapters: the PRIMARY KEY constraint
MangaInsertFails(table, id) == HasId(table, id)
ChapterInsertFails_NoPrimaryKey(table, id) == FALSE
ChapterInsertFails(table, id) == HasId(table, id)

\* SELECT id FROM mangas WHERE id = ?1 ... manga_exists.next()
MangaExists(table, id) == HasId(table, id)

HistoryAlive == history_call.result # "Panic"

\* Lazy::new(|| { Connection::open(..) ... CREATE TABLE if not exists ... })
DbConnInit ==
    /\ HistoryAlive
    /\ DBCONN = "Uninit"
    /\ \E outcome \in {"OpenFailed", "Opened", "CreateFailed"} :
        /\ DBCONN' = CASE outcome = "OpenFailed" -> "None"
                       [] outcome = "Opened" -> "Some"
                       [] OTHER -> "Uninit"
        /\ history_call' = IF outcome = "CreateFailed"
                           THEN [history_call EXCEPT !.fn = "DBCONN", !.result = "Panic"]
                           ELSE history_call
    /\ UNCHANGED <<mangas, chapters, fetch_call, input, appVars>>

\* save_history: the rows of mangas after the call
SaveHistoryMangas(conn, arg, ms, cs) ==
    IF conn = "Some" /\ ~MangaExists(ms, arg.id) /\ ~MangaInsertFails(ms, arg.id)
    THEN Append(ms, [id |-> arg.id, title |-> arg.title])
    ELSE ms

\* save_history: the rows of chapters after the call
SaveHistoryChapters(conn, arg, ms, cs) ==
    IF conn = "Some" /\ ~ChapterInsertFails(cs, arg.chapter_id)
    THEN Append(cs, [id |-> arg.chapter_id, title |-> arg.chapter_title,
                     manga_id |-> arg.id])
    ELSE cs

\* save_history: how the call ends
SaveHistoryResult(conn, arg, ms, cs) ==
    CASE conn # "Some" -> "Panic"
      [] ChapterInsertFails(cs, arg.chapter_id) -> "Err"
      [] OTHER -> "Ok"

SaveHistory ==
    /\ HistoryAlive
    /\ DBCONN # "Uninit"
    /\ history_call.calls < MaxSaves
    /\ \E arg \in HistorySaves :
        /\ mangas' = SaveHistoryMangas(DBCONN, arg, mangas, chapters)
        /\ chapters' = SaveHistoryChapters(DBCONN, arg, mangas, chapters)
        /\ history_call' =
               [fn |-> "save_history", arg |-> arg,
                result |-> SaveHistoryResult(DBCONN, arg, mangas, chapters),
                calls |-> history_call.calls + 1,
                mangas_before |-> mangas, chapters_before |-> chapters]
    /\ UNCHANGED <<DBCONN, fetch_call, input, appVars>>

\* get_manga_history: Connection::open(..).unwrap(), prepare(..).unwrap(), vec![]
GetMangaHistoryResult(opened, prepared) ==
    IF opened /\ prepared THEN "Ok" ELSE "Panic"

GetMangaHistory ==
    /\ HistoryAlive
    /\ DBCONN # "Uninit"
    /\ history_call.calls < MaxSaves
    /\ \E id \in MangaIds, opened \in BOOLEAN, prepared \in BOOLEAN :
        history_call' =
            [fn |-> "get_manga_history", arg |-> [NoArg EXCEPT !.id = id],
             result |-> GetMangaHistoryResult(opened, prepared),
             calls |-> history_call.calls + 1,
             mangas_before |-> mangas, chapters_before |-> chapters]
    /\ UNCHANGED <<DBCONN, mangas, chapters, fetch_call, input, appVars>>

(***************************************************************************)
(* The fetch client: fetch.rs.  A call ends in a transport error, in a     *)
(* response whose payload cannot be decoded, or in a valid response.       *)
(***************************************************************************)
FetchOps ==
    {"search_mangas", "get_cover_for_manga", "get_chapter_page",
     "get_manga_chapters", "get_chapter_pages"}
DecodingOps == {"search_mangas", "get_manga_chapters", "get_chapter_pages"}
Responses == {"TransportError", "Malformed", "Valid"}

FetchResult(op, response) ==
    CASE response = "TransportError" -> "Err"
      [] response = "Valid" -> "Ok"
      [] op = "search_mangas" -> "Err"
      [] op \in {"get_manga_chapters", "get_chapter_pages"} -> "Panic"
      [] OTHER -> "Ok"

FetchCall ==
    /\ fetch_call.calls < MaxFetches
    /\ \E op \in FetchOps, response \in Responses :
        fetch_call' = [fn |-> op, response |-> response,
                       result |-> FetchResult(op, response),
                       calls |-> fetch_call.calls + 1]
    /\ UNCHANGED <<DBCONN, mangas, chapters, history_call, input, appVars>>

NextBackend == DbConnInit \/ SaveHistory \/ GetMangaHistory \/ FetchCall

SpecBackend == Init /\ [][NextBackend]_vars

(***************************************************************************)
(* Keys of every kind, on every tab: the senders are the keyboard and the  *)
(* pages' navigation.                                                      *)
(***************************************************************************)
KeyCodes == {"c", "q"}
KeyModifiers == {"NONE", "CONTROL", "CONTROL|SHIFT"}

KeyPressed == \E code \in KeyCodes, modifiers \in KeyModifiers : SendEvent(Key(code, modifiers))

NextKeys == Loop \/ KeyPressed \/ PageNavigates

SpecKeys == Init /\ [][NextKeys]_vars

(***************************************************************************)
(* The claims.                                                             *)
(***************************************************************************)
LoopStepped == pc' # pc
EventAtHead(type) ==
    /\ pc = "event"
    /\ global_event_rx # <<>>
    /\ Head(global_event_rx).type = type
ReaderIsStale(origin) ==
    \/ manga_reader_page = <<>>
    \/ manga_reader_page[1].id # origin
Min(a, b) == IF a < b THEN a ELSE b

\* C1: once NextTab or PreviousTab has been applied, the active tab is not the
\* reader tab, and it is the manga tab only while a manga page exists.
C1_TabSwitchSelectsResidentPage ==
    act_applied \in {"NextTab", "PreviousTab"} =>
        /\ current_tab # "ReaderTab"
        /\ current_tab = "MangaTab" => manga_page # <<>>

\* C2 (as claimed): a Quit put on the global action channel ends the loop within
\* one iteration: the loop never passes its test a second time with that Quit
\* still waiting on the channel.
C2_QuitWithinOneIteration == quit_wait <= 1

\* C2 (amended): a Quit dequeued by the loop's action step sets the state to Done
\* in that step, and once the state is Done the loop starts no further iteration:
\* it finishes the iteration that dequeued the Quit and exits at its next test.
C2_QuitDequeuedEndsLoop ==
    /\ act_applied = "Quit" => state = "Done"
    /\ state = "Done" =>
        /\ act_applied = "Quit"
        /\ pc \in {"search_local", "manga_local", "check", "done"}

C2_Witness ==
    /\ pc = "done"
    /\ act_applied = "Quit"
    /\ current_tab = "ReaderTab"

\* C3: handling GoBackMangaPage while the reader tab is active makes the manga
\* tab active and leaves no reader page.
C3_GoBackDestroysReader ==
    [][(EventAtHead("GoBackMangaPage") /\ current_tab = "ReaderTab" /\ LoopStepped)
         => (current_tab' = "MangaTab" /\ manga_reader_page' = <<>>)]_vars

\* C4: right after the GoSearchPage event or the GoToSearchPage action has been
\* applied, the search tab is active and neither a manga page nor a reader page
\* exists.
C4_GoSearchDestroysPages ==
    (\/ pc = "action" /\ ev_applied.type = "GoSearchPage"
     \/ pc = "search_local" /\ act_applied = "GoToSearchPage")
        => /\ current_tab = "Search"
           /\ manga_page = <<>>
           /\ manga_reader_page = <<>>

\* C5: the step that reads a page's local action channel leaves that page as it
\* was whenever its tab is not the active one.
C5_InactivePageStarved ==
    [][/\ (pc = "search_local" /\ LoopStepped /\ current_tab # "Search")
            => search_page' = search_page
       /\ (pc = "manga_local" /\ LoopStepped /\ current_tab # "MangaTab")
            => manga_page' = manga_page]_vars

\* C6: a Redraw whose reader page has been destroyed or replaced by the time it
\* is dequeued is delivered to no page.
C6_StaleResultDiscarded ==
    (/\ pc = "action"
     /\ ev_applied.type = "Redraw"
     /\ ReaderIsStale(ev_applied.origin))
        => ev_target = "None"

\* C7: right after ReadChapter is handled for a chapter of n pages with at least
\* min(5, n) data-saver names, the reader resolves positions 1..min(5, n) to the
\* data-saver name of that position and positions 6..n to the full-quality name
\* of that position.
C7_ProgressiveQuality ==
    (/\ pc = "action"
     /\ ev_applied.type = "ReadChapter"
     /\ Len(ev_applied.data_saver) >= Min(SaverPages, Len(ev_applied.data)))
        => /\ manga_reader_page # <<>>
           /\ current_tab = "ReaderTab"
           /\ \A i \in 1..Len(ev_applied.data) :
                /\ i <= Len(ReaderPages(manga_reader_page[1]))
                /\ ReaderResolve(manga_reader_page[1], i) =
                       IF i <= SaverPages
                       THEN ev_applied.data_saver[i]
                       ELSE ev_applied.data[i]

C7_Witness ==
    /\ pc = "action"
    /\ ev_applied.type = "ReadChapter"
    /\ Len(ev_applied.data) = MaxPages
    /\ Len(ev_applied.data_saver) = SaverPages
    /\ manga_reader_page # <<>>
    /\ ReaderResolve(manga_reader_page[1], SaverPages) = <<"data_saver", SaverPages>>
    /\ ReaderResolve(manga_reader_page[1], MaxPages) = <<"data", MaxPages>>

\* C8: right after ReadChapter is handled for a chapter with l < 5 data-saver
\* names and n > l full-quality names, the reader holds n pages, positions 1..l
\* resolve to the data-saver name and positions l+1..n to the full-quality name
\* of that position.
C8_FallbackToFullQuality ==
    (/\ pc = "action"
     /\ ev_applied.type = "ReadChapter"
     /\ Len(ev_applied.data_saver) < SaverPages
     /\ Len(ev_applied.data) > Len(ev_applied.data_saver))
        => /\ manga_reader_page # <<>>
           /\ Len(ReaderPages(manga_reader_page[1])) = Len(ev_applied.data)
           /\ \A i \in 1..Len(ev_applied.data) :
                ReaderResolve(manga_reader_page[1], i) =
                    IF i <= Len(ev_applied.data_saver)
                    THEN ev_applied.data_saver[i]
                    ELSE ev_applied.data[i]

\* C9: right after an event has been dequeued and dispatched, the page that
\* received it is the page of the active tab, whichever of the three is active.
C9_EventReachesActivePage ==
    (pc = "action" /\ ev_applied # NoEvent) => ev_target = current_tab

\* C10: while the state is Running no queued event is lost: the loop that is to
\* dequeue and apply it, one per iteration and oldest first, is still running.
C10_NoQueuedEventLost ==
    (state = "Runnning" /\ global_event_rx # <<>>) => pc # "panicked"

\* C11: the input task never makes two failed (or end-of-stream) reads in a row:
\* a tick delay lies between any two of them.
C11_FailedReadWaitsForTick == input.failed <= 1

\* C16: a turn of the input task that read a terminal event appends exactly one
\* Key event if it read a key press, exactly one Mouse event if it read a mouse
\* event, and nothing if it read a key release, a key repeat or anything else.
C16_OnlyPressForwarded ==
    [][(input'.turns # input.turns /\ input'.last \in ReadResults) =>
         CASE input'.last = "KeyPress" ->
                  /\ Len(global_event_rx') = Len(global_event_rx) + 1
                  /\ SubSeq(global_event_rx', 1, Len(global_event_rx)) = global_event_rx
                  /\ global_event_rx'[Len(global_event_rx')].type = "Key"
           [] input'.last = "Mouse" -> global_event_rx' = Append(global_event_rx, Mouse)
           [] OTHER -> global_event_rx' = global_event_rx]_vars

C16_Witness ==
    /\ input.turns = 2
    /\ input.last = "KeyRelease"
    /\ pc = "check"
    /\ ev_applied = NoEvent
    /\ Len(global_event_rx) = 1
    /\ global_event_rx[1].type = "Key"

\* C12: a call of save_history or get_manga_history made while the connection is
\* absent returns without a panic and writes nothing.
C12_UnavailableStoreIsNoOp ==
    (DBCONN = "None" /\ history_call.fn \in {"save_history", "get_manga_history"})
        => /\ history_call.result # "Panic"
           /\ mangas = history_call.mangas_before
           /\ chapters = history_call.chapters_before

\* C13: no manga id is in two rows of mangas, no chapter id is in two rows of
\* chapters, every chapter row names the id of a row of mangas, and a save that
\* returned Ok left a chapter row for its chapter that names its manga.
C13_HistoryRowsUnique ==
    /\ \A i, j \in 1..Len(mangas) : mangas[i].id = mangas[j].id => i = j
    /\ \A i, j \in 1..Len(chapters) : chapters[i].id = chapters[j].id => i = j
    /\ \A i \in 1..Len(chapters) : HasId(mangas, chapters[i].manga_id)
    /\ (history_call.fn = "save_history" /\ history_call.result = "Ok") =>
         \E i \in 1..Len(chapters) :
            /\ chapters[i].id = history_call.arg.chapter_id
            /\ chapters[i].manga_id = history_call.arg.id

C13_Witness ==
    /\ mangas = <<[id |-> "m1", title |-> "Title"]>>
    /\ chapters = <<[id |-> "c1", title |-> "Ch1", manga_id |-> "m1"],
                    [id |-> "c2", title |-> "Ch2", manga_id |-> "m1"]>>
    /\ history_call.result = "Ok"
    /\ history_call.calls = 2

\* C14: a call of search_mangas, get_manga_chapters or get_chapter_pages whose
\* response cannot be decoded returns an error to its caller.
C14_MalformedResponseIsError ==
    (fetch_call.fn \in DecodingOps /\ fetch_call.response = "Malformed")
        => fetch_call.result = "Err"

PageKept(before, after) ==
    /\ after # <<>>
    /\ after[1].id = before[1].id
    /\ after[1].applied = before[1].applied
ActionAtHead(as) ==
    /\ pc = "action"
    /\ global_action_rx # <<>>
    /\ Head(global_action_rx) \in as

C17_NavigationInstallsFreshPage ==
    /\ Len(manga_page) <= 1
    /\ Len(manga_reader_page) <= 1
    /\ (pc = "action" /\ ev_applied.type = "GoToMangaPage") =>
         /\ current_tab = "MangaTab"
         /\ manga_page # <<>>
         /\ manga_page[1].id = next_id - 1
         /\ manga_page[1].applied = 0
    /\ (pc = "action" /\ ev_applied.type = "ReadChapter") =>
         /\ current_tab = "ReaderTab"
         /\ manga_reader_page # <<>>
         /\ manga_reader_page[1].id = next_id - 1

C17_Witness ==
    /\ pc = "action"
    /\ ev_applied.type = "GoToMangaPage"
    /\ manga_page # <<>>
    /\ manga_page[1].id = 2
    /\ manga_reader_page = <<>>
    /\ act_applied = "None"

NothingGlobalApplied ==
    /\ state' = "Done"
    /\ ev_applied' = ev_applied
    /\ act_applied' = act_applied
    /\ Len(global_event_rx') >= Len(global_event_rx)
    /\ Len(global_action_rx') >= Len(global_action_rx)
    /\ current_tab' = current_tab
    /\ manga_reader_page' = manga_reader_page
    /\ Len(manga_page') = Len(manga_page)
LocalApplied ==
    \/ search_page'.applied # search_page.applied
    \/ /\ manga_page # <<>>
       /\ manga_page' # <<>>
       /\ manga_page'[1].applied # manga_page[1].applied

\* C18 (as claimed): once the state is Done it stays Done, and no step applies an
\* event, a global action or a page-local action any more.
C18_NothingAppliedAfterDone ==
    [][state = "Done" => (NothingGlobalApplied /\ ~LocalApplied)]_vars

\* C18 (amended): once the state is Done it stays Done and no step applies an
\* event or a global action any more; a page-local action is applied only by the
\* two local-action steps that finish the iteration in which Quit was applied.
C18_NoGlobalWorkAfterDone ==
    [][state = "Done" =>
         /\ NothingGlobalApplied
         /\ LocalApplied => pc \in {"search_local", "manga_local"}]_vars

C18_Witness ==
    /\ state = "Done"
    /\ pc = "done"
    /\ global_event_rx # <<>>
    /\ global_action_rx # <<>>

\* C19: the unwrap of manga_page in run_app never fails.
C19_MangaPageUnwrapNeverFails == pc # "panicked"

\* C20: handling a key event puts Quit on the global action channel if and only
\* if the key is 'c' with modifiers exactly CONTROL and the search page is not
\* in Typing mode, whichever tab is active.
C20_QuitKeyGate ==
    [][(EventAtHead("Key") /\ LoopStepped) =>
         global_action_rx' =
             IF /\ Head(global_event_rx).code = "c"
                /\ Head(global_event_rx).modifiers = "CONTROL"
                /\ search_page.input_mode # "Typing"
             THEN Append(global_action_rx, "Quit")
             ELSE global_action_rx]_vars

C20_Witness ==
    /\ pc = "action"
    /\ ev_applied = Key("c", "CONTROL")
    /\ current_tab = "ReaderTab"
    /\ search_page.input_mode = "Typing"
    /\ global_action_rx = <<>>
    /\ state = "Runnning"

\* C21: a save_history call that returns an error leaves the mangas table and
\* the chapters table exactly as they were before the call.
C21_FailedSaveLeavesTablesUnchanged ==
    (history_call.fn = "save_history" /\ history_call.result = "Err")
        => /\ mangas = history_call.mangas_before
           /\ chapters = history_call.chapters_before

====
